---- MODULE Spec2Model ----
(***************************************************************************)
(* State-machine model of screen-buffer-mcp:                               *)
(*   ScrcpyBackend  (src/src/screen_buffer_mcp/backends/scrcpy.py)         *)
(*   DeviceRouter   (src/src/screen_buffer_mcp/router.py)                  *)
(*   call_tool      (src/src/screen_buffer_mcp/server.py)                  *)
(*   the control-capable ScrcpyBackend                                     *)
(*                  (src/src/device_manager_mcp/backends/scrcpy.py)        *)
(*                                                                         *)
(* Scheduling domains, as in the code:                                     *)
(*   - the asyncio event loop: coroutines run between await points; every  *)
(*     stretch of code between two awaits is one action;                   *)
(*   - the frame polling thread(s) started by connect();                   *)
(*   - the default executor's worker thread running connect()'s _connect;  *)
(*   - the recorder child processes (scrcpy --record).                     *)
(* disconnect() is synchronous: while it runs the event loop is blocked,   *)
(* but threads keep running, so it is split where a thread can interleave. *)
(***************************************************************************)
EXTENDS Integers, Sequences, FiniteSets, TLC

\* scrcpy.py:26
FRAME_BUFFER_SIZE == 10

\* ---- bounds of the model ----
MaxFrames == 12      \* frames the video sessions deliver in one run
MaxLiveFrames == 2   \* the same, in the runs that also disconnect and reconnect
MaxSessions == 2     \* Session objects constructed in one run
MaxProcs == 2        \* recorder processes spawned in one run
MaxSeqProcs == 1     \* the same, in the runs of a caller that awaits each call
MaxOffset == 11      \* |offset| passed to get_frame_at_offset
MaxSteps == 11       \* MOVE events of the longest swipe

Devices == {"d1", "d2"}
Paths == {"out/a.mp4", "rec/b.mp4"}
Tasks == {1, 2}
Offsets == (0 - MaxOffset)..MaxOffset

\* Python's None / an object reference
None == <<>>
Some(x) == <<x>>
Val(o) == o[1]

VARIABLES
    MYSCRCPY_AVAILABLE,      \* module flag set by the import block
    session,                 \* self._session: None or Some([id, dev, va])
    device_id,               \* self._device_id: None or Some(serial)
    connected,               \* self._connected
    width, height,           \* self._width, self._height
    frame_buffer,            \* self._frame_buffer: deque(maxlen=FRAME_BUFFER_SIZE)
    frame_thread,            \* self._frame_thread: None or Some(thread index)
    running,                 \* self._running
    recording_process,       \* self._recording_process: None or Some(pid)
    recording_output_path,   \* self._recording_output_path
    recording_start_time,    \* self._recording_start_time
    scrcpy_available,        \* DeviceRouter._scrcpy_available: None or Some(bool)
    threads,                 \* the polling threads started so far: Seq([pc, frame])
    open_sessions,           \* ids of Session objects constructed and not stopped
    nsessions,               \* Session objects constructed so far
    captured,                \* frames delivered so far by get_frame(); also the clock
    procs,                   \* recorder processes spawned so far:
                             \* Seq([alive, path, dev, sig, ops])
    files,                   \* output files that exist on disk
    dirs,                    \* directories created by mkdir(parents=True)
    task,                    \* the coroutines in flight, per caller
    dpc,                     \* position inside the synchronous disconnect()
    ret,                     \* what the call completing in the last step returned or
                             \* raised; NoRet after any other step
    pushed,                  \* history: frames appended since the buffer was last cleared
    probes,                  \* history: connect() calls issued by the router
    unlocked,                \* history: the accesses to the frame buffer made
                             \* without holding self._lock
    ctl,                     \* the fields of the control-capable ScrcpyBackend
    ctl_threads,             \* its polling threads: Seq("loop" or "done")
    ctl_task,                \* its coroutine or executor job in flight
    sent                     \* events sent to the device by the input operation
                             \* admitted last

backend == <<session, device_id, connected, width, height, frame_buffer,
             frame_thread, running>>
connection == <<session, connected, width, height, frame_buffer, frame_thread,
                running>>
recording == <<recording_process, recording_output_path, recording_start_time>>
streams == <<threads, open_sessions, nsessions, captured, pushed>>
recorders == <<procs, files, dirs>>
control == <<ctl, ctl_threads, ctl_task, sent>>
vars == <<MYSCRCPY_AVAILABLE, session, device_id, connected, width, height,
          frame_buffer, frame_thread, running, recording_process,
          recording_output_path, recording_start_time, scrcpy_available,
          threads, open_sessions, nsessions, captured, procs, files, dirs,
          task, dpc, ret, pushed, probes, unlocked, ctl, ctl_threads, ctl_task,
          sent>>

\* everything that belongs to the screen-buffer server
screen_buffer == <<session, device_id, connected, width, height, frame_buffer,
                   frame_thread, running, recording_process,
                   recording_output_path, recording_start_time,
                   scrcpy_available, threads, open_sessions, nsessions,
                   captured, procs, files, dirs, task, dpc, pushed, probes,
                   unlocked>>

\* ---- small helpers ----
Min(a, b) == IF a < b THEN a ELSE b

\* Python truthiness of an optional string (None and "" are falsy)
Truthy(o) == o # None /\ Val(o) # ""

\* a coroutine: where it is suspended, the call it serves and its argument,
\* connect()'s locals `device` and `connected`, and (history) the session
\* reference and device identifier the backend held when connect() was entered,
\* or the recorder process start_recording() spawned
IdleTask == [pc |-> "idle", op |-> "none", arg |-> None, device |-> None,
             connected |-> "unset", before |-> None]

Suspended(pc, op, arg, device, conn) ==
    [pc |-> pc, op |-> op, arg |-> arg, device |-> device, connected |-> conn,
     before |-> None]

NoRet == [op |-> "none", arg |-> None, ok |-> TRUE, val |-> None,
          tag |-> "", line |-> 0]

\* a value returned by a call
Returned(op, arg, val, tag, line) ==
    [op |-> op, arg |-> arg, ok |-> TRUE, val |-> val, tag |-> tag, line |-> line]

\* an exception raised by a call
Raised(op, arg, err, line) ==
    [op |-> op, arg |-> arg, ok |-> FALSE, val |-> err, tag |-> "", line |-> line]

\* the event loop can run a coroutine step: it is not blocked inside disconnect()
LoopFree == dpc = "idle"

\* no coroutine is suspended at an await
NoCallInFlight == \A t \in Tasks : task[t].pc = "idle"

\* a step that reads or changes the contents of the frame buffer, inside a
\* `with self._lock:` block or outside of one
Access(op, locked) ==
    unlocked' = IF locked THEN unlocked ELSE unlocked \cup {op}

\* ---- the frame ring buffer and its readers (pure functions) ----

\* a deque created without maxlen: append never evicts
DequeAppend_Unbounded(buf, e) == Append(buf, e)

\* deque(maxlen=FRAME_BUFFER_SIZE).append(e): a full deque drops its leftmost
\* item
DequeAppend(buf, e) ==
    IF Len(buf) >= FRAME_BUFFER_SIZE
    THEN Append(SubSeq(buf, 2, Len(buf)), e)
    ELSE Append(buf, e)

\* buf[i] with Python's index rules: a negative index counts from the right,
\* an index outside the deque raises IndexError
PyIndex(buf, i) ==
    LET j == IF i < 0 THEN i + Len(buf) ELSE i
    IN  IF j < 0 \/ j >= Len(buf)
        THEN [ok |-> FALSE, val |-> "IndexError", line |-> 186]
        ELSE [ok |-> TRUE, val |-> buf[j + 1], line |-> 186]

\* frame.shape[:2] == (height, width) of the frames a device delivers
Shape(dev) == IF dev = "d1" THEN <<2, 1>> ELSE <<3, 2>>

\* Image.fromarray(frame) ... img.save(buffer, format="PNG"): the PNG bytes of
\* a frame, or an exception of the imaging library
EncodePNG(frame, encfail, line) ==
    IF encfail
    THEN [ok |-> FALSE, val |-> "EncodingFailed", line |-> line]
    ELSE [ok |-> TRUE, val |-> [png |-> frame], line |-> line + 3]

\* ScrcpyBackend.screenshot()
screenshot(encfail) ==
    IF ~connected \/ session = None
    THEN [ok |-> FALSE, val |-> "scrcpy not connected", line |-> 156]
    ELSE IF frame_buffer = <<>>
    THEN [ok |-> FALSE, val |-> "No frames available in buffer", line |-> 160]
    ELSE EncodePNG(PyIndex(frame_buffer, 0 - 1).val.frame, encfail, 166)

\* get_frame_at_offset without the min(): the offset is used as given
ClampOffset_Unclamped(offset, count) == offset

\* the index expression of get_frame_at_offset: min() clamps from above only
ClampOffset(offset, count) == Min(offset, count - 1)

\* ScrcpyBackend.get_frame_at_offset(offset)
get_frame_at_offset(offset, encfail) ==
    IF ~connected \/ session = None
    THEN [ok |-> FALSE, val |-> "scrcpy not connected", line |-> 177]
    ELSE IF frame_buffer = <<>>
    THEN [ok |-> FALSE, val |-> "No frames available in buffer", line |-> 181]
    ELSE LET k == ClampOffset(offset, Len(frame_buffer))
             e == PyIndex(frame_buffer, 0 - (k + 1))
         IN  IF e.ok THEN EncodePNG(e.val.frame, encfail, 190) ELSE e

\* ScrcpyBackend.get_screen_size()
get_screen_size ==
    IF width > 0 /\ height > 0
    THEN [ok |-> TRUE, val |-> <<width, height>>, line |-> 212]
    ELSE [ok |-> FALSE, val |-> "Screen size not available", line |-> 214]

\* ScrcpyBackend.is_connected
is_connected == connected /\ session # None /\ Val(session).va

\* ---- returning to the caller ----

\* the coroutine of task t completes with r
Finish(t, r) ==
    /\ task' = [task EXCEPT ![t] = IdleTask]
    /\ ret' = r

\* router.py:76, 92, 107: await self.adb.<capture>(device); the polling backend
\* runs an external command, so the coroutine suspends
AwaitAdb(t, op, arg) ==
    /\ task' = [task EXCEPT ![t] = Suspended("r_adb", op, arg, None, "unset")]
    /\ ret' = NoRet

\* DeviceRouter.screenshot() without the try/except around the streaming path:
\* the streaming exception reaches the caller
RouterScreenshot_Propagates(t, arg, avail) ==
    \/ /\ avail
       /\ \E encfail \in BOOLEAN :
            LET r == screenshot(encfail)
            IN  IF r.ok
                THEN Finish(t, Returned("Router.screenshot", arg, r.val, "scrcpy", 71))
                ELSE Finish(t, Raised("Router.screenshot", arg, r.val, 68))
    \/ /\ ~avail
       /\ AwaitAdb(t, "Router.screenshot", arg)

\* DeviceRouter.screenshot() after _check_scrcpy_available() returned avail
RouterScreenshot(t, arg, avail) ==
    \/ /\ avail
       /\ \E encfail \in BOOLEAN :
            LET r == screenshot(encfail)
            IN  IF r.ok
                THEN Finish(t, Returned("Router.screenshot", arg, r.val, "scrcpy", 71))
                ELSE AwaitAdb(t, "Router.screenshot", arg)
    \/ /\ ~avail
       /\ AwaitAdb(t, "Router.screenshot", arg)

\* DeviceRouter.get_frame_at_offset() after _check_scrcpy_available()
RouterGetFrame(t, arg, avail) ==
    \/ /\ avail
       /\ \E encfail \in BOOLEAN :
            LET r == get_frame_at_offset(arg.offset, encfail)
            IN  IF r.ok
                THEN Finish(t, Returned("Router.get_frame_at_offset", arg, r.val,
                                        "scrcpy", 84))
                ELSE IF arg.offset > 0
                THEN Finish(t, Raised("Router.get_frame_at_offset", arg,
                                      "Cannot get historical frame", 89))
                ELSE AwaitAdb(t, "Router.get_frame_at_offset", arg)
    \/ /\ ~avail
       /\ AwaitAdb(t, "Router.get_frame_at_offset", arg)

\* DeviceRouter.get_screen_size() after _check_scrcpy_available()
RouterGetScreenSize(t, arg, avail) ==
    \/ /\ avail
       /\ LET r == get_screen_size
          IN  IF r.ok
              THEN Finish(t, Returned("Router.get_screen_size", arg, r.val,
                                      "scrcpy", 103))
              ELSE AwaitAdb(t, "Router.get_screen_size", arg)
    \/ /\ ~avail
       /\ AwaitAdb(t, "Router.get_screen_size", arg)

\* the body of a router read operation once the probe result is known
RouterAfterCheck(t, op, arg, avail) ==
    CASE op = "Router.screenshot" -> RouterScreenshot(t, arg, avail)
      [] op = "Router.get_frame_at_offset" -> RouterGetFrame(t, arg, avail)
      [] op = "Router.get_screen_size" -> RouterGetScreenSize(t, arg, avail)

\* _check_scrcpy_available() memoizing only a successful probe, so that a
\* failed one is tried again by the next operation
ConnectDone_RetriesFailedProbe(t, op, arg, v, line) ==
    IF op = "connect"
    THEN /\ Finish(t, Returned("connect", arg, v, "", line))
         /\ scrcpy_available' = scrcpy_available
    ELSE /\ scrcpy_available' = IF v THEN Some(v) ELSE None
         /\ RouterAfterCheck(t, op, arg, v)

\* connect() returns v to whoever awaited it: a direct caller, or
\* _check_scrcpy_available(), which memoizes v and goes on with the operation
ConnectDone(t, op, arg, v, line) ==
    IF op = "connect"
    THEN /\ Finish(t, Returned("connect", arg, v, "", line))
         /\ scrcpy_available' = scrcpy_available
    ELSE /\ scrcpy_available' = Some(v)
         /\ RouterAfterCheck(t, op, arg, v)

\* ---- ScrcpyBackend.connect ----

\* what adb.device_list() can answer: an exception, or a list of serials
DeviceLists == {<<>>, <<"d1">>, <<"d2">>, <<"d1", "d2">>, <<"d2", "d1">>}

DeviceListOutcomes ==
    {[raise |-> TRUE, list |-> <<>>]} \cup
    {[raise |-> FALSE, list |-> l] : l \in DeviceLists}

\* connect() up to its first await (lines 91-118): either it returns at once,
\* or it has chosen a device and goes on to open a session
ConnectEntry(did, dl) ==
    LET stop(v, line) == [suspend |-> FALSE, val |-> v, line |-> line, device |-> ""]
        go(d) == [suspend |-> TRUE, val |-> FALSE, line |-> 134, device |-> d]
    IN  IF ~MYSCRCPY_AVAILABLE THEN stop(FALSE, 93)
        ELSE IF connected /\ session # None THEN stop(TRUE, 96)
        ELSE IF dl.raise THEN stop(FALSE, 151)
        ELSE IF dl.list = <<>> THEN stop(FALSE, 103)
        ELSE IF Truthy(did)
        THEN IF \E i \in 1..Len(dl.list) : dl.list[i] = Val(did)
             THEN go(Val(did))
             ELSE stop(FALSE, 114)
        ELSE go(dl.list[1])

\* connect() storing the requested device id before looking it up
ConnectStart_StoresRequestedId(t, op, arg, did) ==
    \E dl \in DeviceListOutcomes :
        LET o == ConnectEntry(did, dl)
        IN  IF o.suspend
            THEN /\ device_id' = Some(o.device)
                 /\ task' = [task EXCEPT
                        ![t] = [Suspended("c_exec", op, arg, Some(o.device), "unset")
                                EXCEPT !.before = Some([session |-> session,
                                                        device_id |-> device_id])]]
                 /\ ret' = NoRet
                 /\ scrcpy_available' = scrcpy_available
            ELSE /\ device_id' = IF Truthy(did) /\ o.line \in {103, 114}
                                 THEN did ELSE device_id
                 /\ ConnectDone(t, op, arg, o.val, o.line)

\* a coroutine enters connect(did) on behalf of operation op
ConnectStart(t, op, arg, did) ==
    \E dl \in DeviceListOutcomes :
        LET o == ConnectEntry(did, dl)
        IN  IF o.suspend
            THEN /\ device_id' = Some(o.device)
                 /\ task' = [task EXCEPT
                        ![t] = [Suspended("c_exec", op, arg, Some(o.device), "unset")
                                EXCEPT !.before = Some([session |-> session,
                                                        device_id |-> device_id])]]
                 /\ ret' = NoRet
                 /\ scrcpy_available' = scrcpy_available
            ELSE /\ device_id' = device_id
                 /\ ConnectDone(t, op, arg, o.val, o.line)

\* a caller invokes ScrcpyBackend.connect(device_id)
ConnectCall(t, did) ==
    /\ LoopFree
    /\ task[t].pc = "idle"
    /\ ConnectStart(t, "connect", did, did)
    /\ UNCHANGED <<MYSCRCPY_AVAILABLE, unlocked, control, connection, recording, streams, recorders,
                   dpc, probes>>

\* _connect() in the executor, line 125: the Session constructor raises, or
\* builds a session whose video adapter comes up (va) or does not
ConnectOpen(t) ==
    /\ task[t].pc = "c_exec"
    /\ \/ /\ task' = [task EXCEPT ![t].pc = "c_resume", ![t].connected = "raise"]
          /\ UNCHANGED <<session, open_sessions, nsessions>>
       \/ /\ nsessions < MaxSessions
          /\ \E va \in BOOLEAN :
                session' = Some([id |-> nsessions + 1,
                                 dev |-> Val(task[t].device), va |-> va])
          /\ nsessions' = nsessions + 1
          /\ open_sessions' = open_sessions \cup {nsessions + 1}
          /\ task' = [task EXCEPT ![t].pc = "c_wait"]
    /\ ret' = NoRet
    /\ UNCHANGED <<MYSCRCPY_AVAILABLE, unlocked, control, device_id, connected, width, height,
                   frame_buffer, frame_thread, running, recording,
                   scrcpy_available, threads, captured, pushed, recorders,
                   dpc, probes>>

\* _connect() in the executor, lines 131-132: after the sleep it reads
\* self._session again and reports whether video is live
ConnectWait(t) ==
    /\ task[t].pc = "c_wait"
    /\ task' = [task EXCEPT
            ![t].pc = "c_resume",
            ![t].connected = IF session = None THEN "raise"
                             ELSE IF Val(session).va THEN "True" ELSE "False"]
    /\ ret' = NoRet
    /\ UNCHANGED <<MYSCRCPY_AVAILABLE, unlocked, control, backend, recording, scrcpy_available,
                   streams, recorders, dpc, probes>>

\* connect() resumes on the event loop with the executor's result, lines 134-151
ConnectResume(t) ==
    /\ LoopFree
    /\ task[t].pc = "c_resume"
    /\ IF task[t].connected = "True"
       THEN /\ connected' = TRUE
            /\ running' = TRUE
            /\ threads' = Append(threads, [pc |-> "loop", frame |-> None])
            /\ frame_thread' = Some(Len(threads) + 1)
            /\ task' = [task EXCEPT ![t].pc = "c_sleep"]
            /\ ret' = NoRet
            /\ scrcpy_available' = scrcpy_available
       ELSE /\ UNCHANGED <<connected, running, threads, frame_thread>>
            /\ ConnectDone(t, task[t].op, task[t].arg, FALSE,
                           IF task[t].connected = "False" THEN 147 ELSE 151)
    /\ UNCHANGED <<MYSCRCPY_AVAILABLE, unlocked, control, session, device_id, width, height,
                   frame_buffer, recording, open_sessions, nsessions, captured,
                   pushed, recorders, dpc, probes>>

\* connect() after asyncio.sleep(0.5), line 144
ConnectSleep(t) ==
    /\ LoopFree
    /\ task[t].pc = "c_sleep"
    /\ ConnectDone(t, task[t].op, task[t].arg, TRUE, 144)
    /\ UNCHANGED <<MYSCRCPY_AVAILABLE, unlocked, control, backend, recording, streams, recorders,
                   dpc, probes>>

\* ---- ScrcpyBackend._frame_polling_loop, one polling thread ----

\* line 70: the while condition
ThreadLoop(i) ==
    /\ threads[i].pc = "loop"
    /\ threads' = [threads EXCEPT
            ![i].pc = IF running /\ session # None THEN "body" ELSE "done"]
    /\ ret' = NoRet
    /\ UNCHANGED <<MYSCRCPY_AVAILABLE, unlocked, control, backend, recording, scrcpy_available,
                   open_sessions, nsessions, captured, pushed, recorders,
                   task, dpc, probes>>

\* the polling loop without its try/except: an exception of the frame call
\* ends the thread
ThreadBody_ExceptionEndsLoop(i) ==
    /\ threads[i].pc = "body"
    /\ IF session = None
       THEN /\ threads' = [threads EXCEPT ![i].pc = "done"]
            /\ captured' = captured
       ELSE IF ~Val(session).va
       THEN /\ threads' = [threads EXCEPT ![i].pc = "sleep"]
            /\ captured' = captured
       ELSE \/ /\ captured < MaxFrames
               /\ captured' = captured + 1
               /\ threads' = [threads EXCEPT
                      ![i].pc = "push",
                      ![i].frame = Some([id |-> captured + 1,
                                         dev |-> Val(session).dev])]
            \/ /\ threads' = [threads EXCEPT ![i].pc = "sleep"]
               /\ captured' = captured
            \/ /\ threads' = [threads EXCEPT ![i].pc = "done"]
               /\ captured' = captured
    /\ ret' = NoRet
    /\ UNCHANGED <<MYSCRCPY_AVAILABLE, unlocked, control, backend, recording, scrcpy_available,
                   open_sessions, nsessions, pushed, recorders, task, dpc,
                   probes>>

\* lines 72-75: read the session's video adapter and poll it for a frame; an
\* exception (also the AttributeError on a session that is None by now) sends
\* the thread to the back-off sleep
ThreadBody(i) ==
    /\ threads[i].pc = "body"
    /\ IF session = None
       THEN /\ threads' = [threads EXCEPT ![i].pc = "backoff"]
            /\ captured' = captured
       ELSE IF ~Val(session).va
       THEN /\ threads' = [threads EXCEPT ![i].pc = "sleep"]
            /\ captured' = captured
       ELSE \/ /\ captured < MaxFrames
               /\ captured' = captured + 1
               /\ threads' = [threads EXCEPT
                      ![i].pc = "push",
                      ![i].frame = Some([id |-> captured + 1,
                                         dev |-> Val(session).dev])]
            \/ /\ threads' = [threads EXCEPT ![i].pc = "sleep"]
               /\ captured' = captured
            \/ /\ threads' = [threads EXCEPT ![i].pc = "backoff"]
               /\ captured' = captured
    /\ ret' = NoRet
    /\ UNCHANGED <<MYSCRCPY_AVAILABLE, unlocked, control, backend, recording, scrcpy_available,
                   open_sessions, nsessions, pushed, recorders, task, dpc,
                   probes>>

\* lines 76-82: under the lock, append the frame and record the dimensions
ThreadPush(i) ==
    /\ threads[i].pc = "push"
    /\ LET f == Val(threads[i].frame)
       IN  /\ frame_buffer' = DequeAppend(frame_buffer,
                                  [frame |-> f, timestamp |-> f.id])
           /\ pushed' = Append(pushed, f)
           /\ IF height = 0
              THEN /\ height' = Shape(f.dev)[1]
                   /\ width' = Shape(f.dev)[2]
              ELSE UNCHANGED <<height, width>>
    /\ threads' = [threads EXCEPT ![i].pc = "sleep", ![i].frame = None]
    /\ ret' = NoRet
    /\ Access("_frame_polling_loop", TRUE)
    /\ UNCHANGED <<MYSCRCPY_AVAILABLE, control, session, device_id, connected,
                   frame_thread, running, recording, scrcpy_available,
                   open_sessions, nsessions, captured, recorders, task, dpc, probes>>

\* lines 84, 87: time.sleep(0.016) or the back-off time.sleep(0.1) is over
ThreadSleep(i) ==
    /\ threads[i].pc \in {"sleep", "backoff"}
    /\ threads' = [threads EXCEPT ![i].pc = "loop"]
    /\ ret' = NoRet
    /\ UNCHANGED <<MYSCRCPY_AVAILABLE, unlocked, control, backend, recording, scrcpy_available,
                   open_sessions, nsessions, captured, pushed, recorders,
                   task, dpc, probes>>

\* ---- the recording session ----

\* Path(output_path).parent
Parent(path) == IF path = "out/a.mp4" THEN "out" ELSE "rec"

\* is_recording with the poll() test inverted
is_recording_InvertedPoll ==
    recording_process # None /\ ~procs[Val(recording_process)].alive

\* is_recording without the poll() test
is_recording_HandleOnly == recording_process # None

\* ScrcpyBackend.is_recording: a process handle is held and poll() is None
is_recording ==
    recording_process # None /\ procs[Val(recording_process)].alive

\* start_recording(output_path) up to its await, lines 232-265
StartRecordingCall(t, path) ==
    /\ LoopFree
    /\ task[t].pc = "idle"
    /\ IF is_recording
       THEN /\ Finish(t, Returned("start_recording", path, FALSE, "", 234))
            /\ UNCHANGED <<recording, recorders>>
       ELSE IF ~Truthy(device_id)
       THEN /\ Finish(t, Returned("start_recording", path, FALSE, "", 238))
            /\ UNCHANGED <<recording, recorders>>
       ELSE \/ \* mkdir raises, outside the try block
               /\ Finish(t, Raised("start_recording", path, "OSError", 242))
               /\ UNCHANGED <<recording, recorders>>
            \/ \* Popen raises FileNotFoundError
               /\ dirs' = dirs \cup {Parent(path)}
               /\ Finish(t, Returned("start_recording", path, FALSE, "", 281))
               /\ UNCHANGED <<recording, procs, files>>
            \/ \* Popen raises another exception
               /\ dirs' = dirs \cup {Parent(path)}
               /\ Finish(t, Returned("start_recording", path, FALSE, "", 284))
               /\ UNCHANGED <<recording, procs, files>>
            \/ \* the recorder process is spawned
               /\ Len(procs) < MaxProcs
               /\ dirs' = dirs \cup {Parent(path)}
               /\ procs' = Append(procs, [alive |-> TRUE, path |-> path,
                                          dev |-> Val(device_id), sig |-> "none",
                                          ops |-> <<>>])
               /\ recording_process' = Some(Len(procs) + 1)
               /\ recording_output_path' = Some(path)
               /\ recording_start_time' = Some(Len(procs) + 1)
               /\ task' = [task EXCEPT
                      ![t] = [Suspended("s_sleep", "start_recording", path, None,
                                        "unset")
                                EXCEPT !.before = Some([proc |-> Len(procs) + 1])]]
               /\ ret' = NoRet
               /\ files' = files
    /\ UNCHANGED <<MYSCRCPY_AVAILABLE, unlocked, control, backend, scrcpy_available, streams,
                   dpc, probes>>

\* start_recording after asyncio.sleep(0.5), lines 267-284
StartRecordingResume(t) ==
    /\ LoopFree
    /\ task[t].pc = "s_sleep"
    /\ IF recording_process = None
       THEN \* AttributeError on None, caught by `except Exception`
            /\ Finish(t, Returned("start_recording", task[t].arg, FALSE, "", 284))
            /\ UNCHANGED recording
       ELSE IF ~procs[Val(recording_process)].alive
       THEN /\ recording_process' = None
            /\ recording_output_path' = None
            /\ recording_start_time' = None
            /\ Finish(t, Returned("start_recording", task[t].arg, FALSE, "", 274))
       ELSE /\ Finish(t, Returned("start_recording", task[t].arg, TRUE, "", 277))
            /\ UNCHANGED recording
    /\ UNCHANGED <<MYSCRCPY_AVAILABLE, unlocked, control, backend, scrcpy_available, streams,
                   recorders, dpc, probes>>

\* stop_recording force-killing after the timeout without waiting again
StopProcess_NoSecondWait(pr, timedout) ==
    [pr EXCEPT !.alive = ~timedout,
               !.sig = IF timedout THEN "kill" ELSE "term",
               !.ops = @ \o (IF timedout
                             THEN <<"terminate", "wait_timeout", "kill">>
                             ELSE <<"terminate", "wait">>)]

\* the calls stop_recording makes on the Popen handle, lines 303-309:
\* terminate(), wait(timeout=5) and, when that wait raises TimeoutExpired,
\* kill() and wait(); ops is the log of the calls made on the process
StopProcess(pr, timedout) ==
    [pr EXCEPT !.alive = FALSE,
               !.sig = IF timedout THEN "kill" ELSE "term",
               !.ops = @ \o (IF timedout
                             THEN <<"terminate", "wait_timeout", "kill", "wait">>
                             ELSE <<"terminate", "wait">>)]

\* stop_recording reporting success without looking for the output file
StopResult_IgnoresFile(path, fs) ==
    [success |-> TRUE, output_path |-> path, error |-> ""]

\* what stop_recording reports, lines 314-329
StopResult(path, fs) ==
    IF path # None /\ Val(path) \in fs
    THEN [success |-> TRUE, output_path |-> path, error |-> ""]
    ELSE [success |-> FALSE, output_path |-> None, error |-> "Recording file not found"]

\* stop_recording without its finally block: the exception path keeps the
\* process handle, output path and start time
StopRecordingCall_NoFinally ==
    /\ LoopFree
    /\ IF ~is_recording
       THEN /\ ret' = Returned("stop_recording", None,
                        [success |-> FALSE, output_path |-> None,
                         error |-> "No recording in progress"], "", 293)
            /\ UNCHANGED <<recording, recorders>>
       ELSE LET p == Val(recording_process) IN
            /\ \/ \* terminate(); wait(timeout=5) returns, or times out and
                  \* kill(); wait() follows; the recorder may finalize its file
                  \E timedout \in BOOLEAN, fin \in BOOLEAN :
                    /\ procs' = [procs EXCEPT ![p] = StopProcess(procs[p], timedout)]
                    /\ files' = IF fin THEN files \cup {procs[p].path} ELSE files
                    /\ ret' = Returned("stop_recording", None,
                                StopResult(recording_output_path, files'), "",
                                IF StopResult(recording_output_path, files').success
                                THEN 318 ELSE 326)
                    /\ recording_process' = None
                    /\ recording_output_path' = None
                    /\ recording_start_time' = None
               \/ \* terminate() or wait() raises something else
                  /\ ret' = Returned("stop_recording", None,
                                [success |-> FALSE, output_path |-> None,
                                 error |-> "exception"], "", 333)
                  /\ UNCHANGED <<procs, files, recording>>
            /\ dirs' = dirs
    /\ UNCHANGED <<MYSCRCPY_AVAILABLE, unlocked, control, backend, scrcpy_available, streams,
                   task, dpc, probes>>

\* stop_recording(), lines 292-340; it never awaits, so it is one step
StopRecordingCall ==
    /\ LoopFree
    /\ IF ~is_recording
       THEN /\ ret' = Returned("stop_recording", None,
                        [success |-> FALSE, output_path |-> None,
                         error |-> "No recording in progress"], "", 293)
            /\ UNCHANGED <<recording, recorders>>
       ELSE LET p == Val(recording_process) IN
            /\ \/ \* terminate(); wait(timeout=5) returns, or times out and
                  \* kill(); wait() follows; the recorder may finalize its file
                  \E timedout \in BOOLEAN, fin \in BOOLEAN :
                    /\ procs' = [procs EXCEPT ![p] = StopProcess(procs[p], timedout)]
                    /\ files' = IF fin THEN files \cup {procs[p].path} ELSE files
                    /\ ret' = Returned("stop_recording", None,
                                StopResult(recording_output_path, files'), "",
                                IF StopResult(recording_output_path, files').success
                                THEN 318 ELSE 326)
               \/ \* terminate() or wait() raises something else
                  /\ ret' = Returned("stop_recording", None,
                                [success |-> FALSE, output_path |-> None,
                                 error |-> "exception"], "", 333)
                  /\ UNCHANGED <<procs, files>>
            /\ recording_process' = None
            /\ recording_output_path' = None
            /\ recording_start_time' = None
            /\ dirs' = dirs
    /\ UNCHANGED <<MYSCRCPY_AVAILABLE, unlocked, control, backend, scrcpy_available, streams,
                   task, dpc, probes>>

\* get_recording_status(), lines 348-358
GetRecordingStatusCall ==
    /\ LoopFree
    /\ ret' = Returned("get_recording_status", None,
                IF is_recording
                THEN [is_recording |-> TRUE, output_path |-> recording_output_path]
                ELSE [is_recording |-> FALSE, output_path |-> None], "",
                IF is_recording THEN 354 ELSE 349)
    /\ UNCHANGED <<MYSCRCPY_AVAILABLE, unlocked, control, backend, recording, scrcpy_available,
                   streams, recorders, task, dpc, probes>>

\* a recorder process writes its output file
RecorderWrites(p) ==
    /\ procs[p].alive
    /\ procs[p].path \notin files
    /\ files' = files \cup {procs[p].path}
    /\ ret' = NoRet
    /\ UNCHANGED <<MYSCRCPY_AVAILABLE, unlocked, control, backend, recording, scrcpy_available,
                   streams, procs, dirs, task, dpc, probes>>

\* a recorder process exits on its own (device gone, signal delivered late)
RecorderExits(p) ==
    /\ procs[p].alive
    /\ procs' = [procs EXCEPT ![p].alive = FALSE]
    /\ ret' = NoRet
    /\ UNCHANGED <<MYSCRCPY_AVAILABLE, unlocked, control, backend, recording, scrcpy_available,
                   streams, files, dirs, task, dpc, probes>>

\* ---- ScrcpyBackend.disconnect ----

\* lines 363-373: stop the recorder if a handle is held, clear the running flag
DisconnectBegin ==
    /\ LoopFree
    /\ IF recording_process # None
       THEN LET p == Val(recording_process) IN
            /\ \/ \* terminate(); wait(timeout=2) returns
                  procs' = [procs EXCEPT
                      ![p].alive = FALSE,
                      ![p].sig = IF procs[p].alive THEN "term" ELSE procs[p].sig,
                      ![p].ops = @ \o <<"terminate", "wait">>]
               \/ \* wait(timeout=2) times out; the exception is swallowed
                  /\ procs[p].alive
                  /\ procs' = [procs EXCEPT
                         ![p].sig = "term",
                         ![p].ops = @ \o <<"terminate", "wait_timeout">>]
            /\ recording_process' = None
            /\ recording_output_path' = None
            /\ recording_start_time' = None
       ELSE UNCHANGED <<recording, procs>>
    /\ running' = FALSE
    /\ dpc' = "join"
    /\ ret' = NoRet
    /\ UNCHANGED <<MYSCRCPY_AVAILABLE, unlocked, control, session, device_id, connected, width,
                   height, frame_buffer, frame_thread, scrcpy_available,
                   streams, files, dirs, task, probes>>

\* lines 374-384: join(timeout=1) returns (the thread ended, or the timeout
\* expired), the session is stopped and the fields are reset
DisconnectJoin ==
    /\ dpc = "join"
    /\ open_sessions' = IF session # None
                        THEN open_sessions \ {Val(session).id}
                        ELSE open_sessions
    /\ session' = None
    /\ connected' = FALSE
    /\ width' = 0
    /\ height' = 0
    /\ dpc' = "clear"
    /\ ret' = NoRet
    /\ UNCHANGED <<MYSCRCPY_AVAILABLE, unlocked, control, device_id, frame_buffer, frame_thread,
                   running, recording, scrcpy_available, threads, nsessions,
                   captured, pushed, recorders, task, probes>>

\* line 385: self._frame_buffer.clear(), outside of any `with self._lock:`
\* block, then disconnect() returns
DisconnectClear ==
    /\ dpc = "clear"
    /\ frame_buffer' = <<>>
    /\ pushed' = <<>>
    /\ dpc' = "idle"
    /\ ret' = Returned("disconnect", None, None, "", 386)
    /\ Access("disconnect", FALSE)
    /\ UNCHANGED <<MYSCRCPY_AVAILABLE, control, session, device_id, connected, width,
                   height, frame_thread, running, recording, scrcpy_available,
                   threads, open_sessions, nsessions, captured, recorders,
                   task, probes>>

\* ---- readers called directly on the backend; none of them awaits; the
\* buffer is read inside `with self._lock:` (lines 158-163, 179-187) and the
\* frame is encoded after the block ----

ScreenshotCall ==
    /\ LoopFree
    /\ \E encfail \in BOOLEAN :
        LET r == screenshot(encfail)
        IN  ret' = IF r.ok THEN Returned("screenshot", None, r.val, "", r.line)
                   ELSE Raised("screenshot", None, r.val, r.line)
    /\ Access("screenshot", TRUE)
    /\ UNCHANGED <<MYSCRCPY_AVAILABLE, control, backend, recording, scrcpy_available,
                   streams, recorders, task, dpc, probes>>

GetFrameAtOffsetCall(k) ==
    /\ LoopFree
    /\ \E encfail \in BOOLEAN :
        LET r == get_frame_at_offset(k, encfail)
        IN  ret' = IF r.ok THEN Returned("get_frame_at_offset", k, r.val, "", r.line)
                   ELSE Raised("get_frame_at_offset", k, r.val, r.line)
    /\ Access("get_frame_at_offset", TRUE)
    /\ UNCHANGED <<MYSCRCPY_AVAILABLE, control, backend, recording, scrcpy_available,
                   streams, recorders, task, dpc, probes>>

GetScreenSizeCall ==
    /\ LoopFree
    /\ LET r == get_screen_size
       IN  ret' = IF r.ok THEN Returned("get_screen_size", None, r.val, "", r.line)
                  ELSE Raised("get_screen_size", None, r.val, r.line)
    /\ UNCHANGED <<MYSCRCPY_AVAILABLE, unlocked, control, backend, recording, scrcpy_available,
                   streams, recorders, task, dpc, probes>>

\* ---- DeviceRouter ----

RouterOps == {"Router.screenshot", "Router.get_frame_at_offset",
              "Router.get_screen_size"}

RouterOffsets == {0 - 1, 0, 1, MaxOffset}

RouterArgs(op) ==
    {[offset |-> k, device |-> d] :
        k \in IF op = "Router.get_frame_at_offset" THEN RouterOffsets ELSE {0},
        d \in {None} \cup {Some(x) : x \in Devices}}

\* a router read operation up to its first suspension: _check_scrcpy_available
\* (lines 42-52) probes with connect() while the result is still None
RouterCall(t, op, arg) ==
    /\ LoopFree
    /\ task[t].pc = "idle"
    /\ IF scrcpy_available = None
       THEN /\ probes' = probes + 1
            /\ ConnectStart(t, op, arg, None)
       ELSE /\ probes' = probes
            /\ device_id' = device_id
            /\ scrcpy_available' = scrcpy_available
            /\ RouterAfterCheck(t, op, arg, Val(scrcpy_available))
    /\ UNCHANGED <<MYSCRCPY_AVAILABLE, unlocked, control, connection, recording, streams,
                   recorders, dpc>>

\* the polling backend's answer to a capture or screen-size request for a
\* device: the data of that device, or an error of the polling path
AdbResult(device, fail) ==
    IF fail
    THEN [ok |-> FALSE, val |-> "adb failed"]
    ELSE [ok |-> TRUE, val |-> [adb |-> device]]

\* router.py:76-77, 92-93, 107: the awaited polling call completes; its data
\* is returned tagged "adb", its exception propagates
AdbReturn(t) ==
    /\ LoopFree
    /\ task[t].pc = "r_adb"
    /\ \E fail \in BOOLEAN :
        LET r == AdbResult(task[t].arg.device, fail)
            line == CASE task[t].op = "Router.screenshot" -> 76
                      [] task[t].op = "Router.get_frame_at_offset" -> 92
                      [] OTHER -> 107
        IN  IF r.ok
            THEN Finish(t, Returned(task[t].op, task[t].arg, r.val, "adb", line + 1))
            ELSE Finish(t, Raised(task[t].op, task[t].arg, r.val, line))
    /\ UNCHANGED <<MYSCRCPY_AVAILABLE, unlocked, control, backend, recording, scrcpy_available,
                   streams, recorders, dpc, probes>>

\* ---- call_tool: the recording tools ----

\* the attributes of class DeviceRouter, router.py:14-107
DeviceRouterAttributes ==
    {"scrcpy", "adb", "_check_scrcpy_available", "get_backend_status",
     "screenshot", "get_frame_at_offset", "list_devices", "get_screen_size"}

RecordingTools == {"device_start_recording", "device_stop_recording",
                   "device_recording_status"}

\* the router attribute each recording tool looks up, server.py:204, 211, 218
RouterAttribute(name) ==
    CASE name = "device_start_recording" -> "start_recording"
      [] name = "device_stop_recording" -> "stop_recording"
      [] OTHER -> "get_recording_status"

\* the output_path argument: missing, or a path
ToolArgs(name) ==
    IF name = "device_start_recording"
    THEN {None} \cup {Some(x) : x \in Paths}
    ELSE {None}

\* call_tool(name, arguments) for a recording tool, server.py:197-235: the
\* argument test, then the attribute lookup on the router; an AttributeError
\* is caught by `except Exception` and turned into the text "Error: ..."
CallToolRecording(t, name, arg) ==
    /\ LoopFree
    /\ task[t].pc = "idle"
    /\ IF name = "device_start_recording" /\ ~Truthy(arg)
       THEN /\ ret' = Returned("call_tool", name,
                        [text |-> "Error: output_path is required"], "", 201)
            /\ UNCHANGED <<MYSCRCPY_AVAILABLE, unlocked, control, backend, recording,
                           scrcpy_available, streams, recorders, task, dpc,
                           probes>>
       ELSE IF RouterAttribute(name) \notin DeviceRouterAttributes
       THEN /\ ret' = Returned("call_tool", name,
                        [text |-> "Error: 'DeviceRouter' object has no attribute"],
                        "", 234)
            /\ UNCHANGED <<MYSCRCPY_AVAILABLE, unlocked, control, backend, recording,
                           scrcpy_available, streams, recorders, task, dpc,
                           probes>>
       ELSE CASE name = "device_start_recording" -> StartRecordingCall(t, Val(arg))
              [] name = "device_stop_recording" -> StopRecordingCall
              [] OTHER -> GetRecordingStatusCall

\* ---- the control-capable ScrcpyBackend (device_manager_mcp) ----

\* key names are sequences of characters, so that str.upper() is computed
LowerCase ==
    <<"a", "b", "c", "d", "e", "f", "g", "h", "i", "j", "k", "l", "m",
      "n", "o", "p", "q", "r", "s", "t", "u", "v", "w", "x", "y", "z">>
UpperCase ==
    <<"A", "B", "C", "D", "E", "F", "G", "H", "I", "J", "K", "L", "M",
      "N", "O", "P", "Q", "R", "S", "T", "U", "V", "W", "X", "Y", "Z">>

\* str.upper() on one character: an ASCII lower-case letter becomes its
\* upper-case letter, every other character of a key name stays
UpperChar(c) ==
    IF \E i \in 1..Len(LowerCase) : LowerCase[i] = c
    THEN UpperCase[CHOOSE i \in 1..Len(LowerCase) : LowerCase[i] = c]
    ELSE c

\* key.upper(), line 226
upper(key) == [i \in 1..Len(key) |-> UpperChar(key[i])]

\* key_map, lines 214-224: (name, Android keycode)
key_map ==
    {<<<<"B", "A", "C", "K">>, 4>>,
     <<<<"H", "O", "M", "E">>, 3>>,
     <<<<"E", "N", "T", "E", "R">>, 66>>,
     <<<<"V", "O", "L", "U", "M", "E", "_", "U", "P">>, 24>>,
     <<<<"V", "O", "L", "U", "M", "E", "_", "D", "O", "W", "N">>, 25>>,
     <<<<"P", "O", "W", "E", "R">>, 26>>,
     <<<<"T", "A", "B">>, 61>>,
     <<<<"E", "S", "C", "A", "P", "E">>, 111>>,
     <<<<"D", "E", "L", "E", "T", "E">>, 67>>}

\* key_map.get(name): the keycode, or None
key_map_get(name) ==
    IF \E e \in key_map : e[1] = name
    THEN Some((CHOOSE e \in key_map : e[1] = name)[2])
    ELSE None

\* the key names callers pass
Keys ==
    {<<"B", "A", "C", "K">>,
     <<"b", "a", "c", "k">>,
     <<"H", "o", "m", "e">>,
     <<"e", "n", "t", "e", "r">>,
     <<"V", "O", "L", "U", "M", "E", "_", "U", "P">>,
     <<"v", "o", "l", "u", "m", "e", "_", "d", "o", "w", "n">>,
     <<"P", "o", "w", "e", "r">>,
     <<"t", "a", "b">>,
     <<"E", "S", "C", "A", "P", "E">>,
     <<"d", "e", "l", "e", "t", "e">>,
     <<"M", "E", "N", "U">>,
     <<"b", "a", "c">>,
     <<"b", "a", "c", "k", "s">>,
     <<>>}

\* the swipes callers request
Durations == {0 - 30, 0, 299, 300, 30 * MaxSteps}
SwipeArgs ==
    [start_x : {5}, start_y : {7}, end_x : {5, 40}, end_y : {90},
     duration_ms : Durations]

Max(a, b) == IF a > b THEN a ELSE b

\* steps = max(10, duration_ms // 30), line 179
SwipeSteps(duration_ms) == Max(10, duration_ms \div 30)

\* int(start + d * i) with d = (end - start) / steps, lines 181-188, for
\* coordinates that are not negative (exact arithmetic; the rounding of the
\* float product is not modelled)
Interpolate(a, b, i, steps) == a + ((b - a) * i) \div steps

\* ca.f_touch(action, x, y, self._width, self._height, 0)
Touch(action, x, y) ==
    [action |-> action, x |-> x, y |-> y, width |-> ctl.width,
     height |-> ctl.height]

\* adb -s <device> shell input keyevent <keycode>, lines 235-238
KeyEvent(code) == [action |-> "KEY", code |-> code, device |-> ctl.device_id]

\* the events of the input operation in flight; those of an operation that
\* has returned are forgotten by the next step
SentKept ==
    IF ctl_task.pc \in {"sw_down", "sw_move", "sw_release", "press"}
    THEN sent ELSE <<>>

CtlIdle == [pc |-> "idle", op |-> "none", arg |-> None, i |-> 0, code |-> 0,
            result |-> "unset"]

CtlJob(pc, op, arg) == [CtlIdle EXCEPT !.pc = pc, !.op = op, !.arg = arg]

\* connect() up to run_in_executor, lines 79-98
CtlConnectCall ==
    /\ ctl_task.pc = "idle"
    /\ IF ~MYSCRCPY_AVAILABLE
       THEN /\ ret' = Returned("ctl.connect", None, FALSE, "", 81)
            /\ UNCHANGED <<ctl, ctl_task>>
       ELSE IF ctl.connected /\ ctl.session # None
       THEN /\ ret' = Returned("ctl.connect", None, TRUE, "", 84)
            /\ UNCHANGED <<ctl, ctl_task>>
       ELSE \E dl \in DeviceListOutcomes :
            IF dl.raise
            THEN /\ ret' = Returned("ctl.connect", None, FALSE, "", 127)
                 /\ UNCHANGED <<ctl, ctl_task>>
            ELSE IF dl.list = <<>>
            THEN /\ ret' = Returned("ctl.connect", None, FALSE, "", 91)
                 /\ UNCHANGED <<ctl, ctl_task>>
            ELSE /\ ctl' = [ctl EXCEPT !.device_id = Some(dl.list[1])]
                 /\ ctl_task' = CtlJob("c_exec", "ctl.connect", None)
                 /\ ret' = NoRet
    /\ sent' = SentKept
    /\ ctl_threads' = ctl_threads
    /\ UNCHANGED <<MYSCRCPY_AVAILABLE, screen_buffer>>

\* _connect() in the executor, lines 100-108: Session(...) raises, or builds a
\* session with or without its video and control adapters
CtlConnectOpen ==
    /\ ctl_task.pc = "c_exec"
    /\ \/ /\ ctl_task' = [ctl_task EXCEPT !.pc = "c_resume", !.result = "raise"]
          /\ ctl' = ctl
       \/ \E va \in BOOLEAN, ca \in BOOLEAN :
          /\ ctl' = [ctl EXCEPT !.session = Some([dev |-> Val(ctl.device_id),
                                                  va |-> va, ca |-> ca])]
          /\ ctl_task' = [ctl_task EXCEPT
                 !.pc = "c_resume",
                 !.result = IF va /\ ca THEN "True" ELSE "False"]
    /\ ret' = NoRet
    /\ sent' = SentKept
    /\ ctl_threads' = ctl_threads
    /\ UNCHANGED <<MYSCRCPY_AVAILABLE, screen_buffer>>

\* connect() resumes with the executor's result, lines 110-127
CtlConnectResume ==
    /\ ctl_task.pc = "c_resume"
    /\ IF ctl_task.result = "True"
       THEN /\ ctl' = [ctl EXCEPT !.connected = TRUE, !.running = TRUE,
                                  !.frame_thread = Some(Len(ctl_threads) + 1)]
            /\ ctl_threads' = Append(ctl_threads, "loop")
            /\ ctl_task' = [ctl_task EXCEPT !.pc = "c_sleep"]
            /\ ret' = NoRet
       ELSE /\ ret' = Returned("ctl.connect", None, FALSE, "",
                        IF ctl_task.result = "False" THEN 123 ELSE 127)
            /\ ctl_task' = CtlIdle
            /\ UNCHANGED <<ctl, ctl_threads>>
    /\ sent' = SentKept
    /\ UNCHANGED <<MYSCRCPY_AVAILABLE, screen_buffer>>

\* connect() after asyncio.sleep(0.5), lines 118-120
CtlConnectSleep ==
    /\ ctl_task.pc = "c_sleep"
    /\ ret' = Returned("ctl.connect", None, TRUE, "", 120)
    /\ ctl_task' = CtlIdle
    /\ sent' = SentKept
    /\ UNCHANGED <<ctl, ctl_threads>>
    /\ UNCHANGED <<MYSCRCPY_AVAILABLE, screen_buffer>>

\* one round of _frame_polling_loop, lines 62-75: the thread leaves when the
\* flag is down or the session is gone; otherwise it may fetch a frame, store
\* it and, the first time, record the dimensions
CtlThreadPoll(i) ==
    /\ ctl_threads[i] = "loop"
    /\ IF ~(ctl.running /\ ctl.session # None)
       THEN /\ ctl_threads' = [ctl_threads EXCEPT ![i] = "done"]
            /\ ctl' = ctl
       ELSE /\ ctl_threads' = ctl_threads
            /\ Val(ctl.session).va
            /\ ctl.last_frame # Some(Val(ctl.session).dev) \/ ctl.height = 0
            /\ ctl' = [ctl EXCEPT
                   !.last_frame = Some(Val(ctl.session).dev),
                   !.height = IF ctl.height = 0
                              THEN Shape(Val(ctl.session).dev)[1] ELSE @,
                   !.width = IF ctl.height = 0
                             THEN Shape(Val(ctl.session).dev)[2] ELSE @]
    /\ ret' = NoRet
    /\ sent' = SentKept
    /\ ctl_task' = ctl_task
    /\ UNCHANGED <<MYSCRCPY_AVAILABLE, screen_buffer>>

\* disconnect(), lines 249-263: the joined thread has ended or the join timed
\* out; the session is stopped and the fields are reset
CtlDisconnect ==
    /\ \E ended \in BOOLEAN :
         ctl_threads' =
            IF ended /\ ctl.frame_thread # None
            THEN [ctl_threads EXCEPT ![Val(ctl.frame_thread)] = "done"]
            ELSE ctl_threads
    /\ ctl' = [ctl EXCEPT !.running = FALSE, !.session = None,
                          !.connected = FALSE, !.width = 0, !.height = 0]
    /\ ret' = Returned("ctl.disconnect", None, None, "", 263)
    /\ sent' = SentKept
    /\ ctl_task' = ctl_task
    /\ UNCHANGED <<MYSCRCPY_AVAILABLE, screen_buffer>>

\* swipe(...) up to run_in_executor, lines 170-176
CtlSwipeCall(a) ==
    /\ ctl_task.pc = "idle"
    /\ IF ~ctl.connected \/ ctl.session = None \/ ~Val(ctl.session).ca
       THEN /\ ret' = Raised("swipe", a, "RuntimeError", 171)
            /\ sent' = <<>>
            /\ ctl_task' = ctl_task
       ELSE IF ctl.width = 0
       THEN /\ ret' = Raised("swipe", a, "RuntimeError", 174)
            /\ sent' = <<>>
            /\ ctl_task' = ctl_task
       ELSE /\ ctl_task' = CtlJob("sw_down", "swipe", a)
            /\ sent' = <<>>
            /\ ret' = NoRet
    /\ UNCHANGED <<ctl, ctl_threads>>
    /\ UNCHANGED <<MYSCRCPY_AVAILABLE, screen_buffer>>

\* _swipe() in the executor, line 184: the press at the start point; the
\* session may be gone by now, and `None.ca` raises
CtlSwipeDown ==
    /\ ctl_task.pc = "sw_down"
    /\ IF ctl.session = None
       THEN /\ ret' = Raised("swipe", ctl_task.arg, "AttributeError", 184)
            /\ ctl_task' = CtlIdle
            /\ sent' = sent
       ELSE /\ sent' = Append(sent, Touch("DOWN", ctl_task.arg.start_x,
                                          ctl_task.arg.start_y))
            /\ ctl_task' = [ctl_task EXCEPT !.pc = "sw_move", !.i = 1]
            /\ ret' = NoRet
    /\ UNCHANGED <<ctl, ctl_threads>>
    /\ UNCHANGED <<MYSCRCPY_AVAILABLE, screen_buffer>>

\* _swipe(), lines 186-190: one round of the for loop, the move and then
\* time.sleep(step_delay), which raises ValueError for a negative delay
CtlSwipeMove ==
    /\ ctl_task.pc = "sw_move"
    /\ LET a == ctl_task.arg
           steps == SwipeSteps(a.duration_ms)
           i == ctl_task.i
       IN  IF ctl.session = None
           THEN /\ ret' = Raised("swipe", a, "AttributeError", 189)
                /\ ctl_task' = CtlIdle
                /\ sent' = sent
           ELSE /\ sent' = Append(sent,
                               Touch("MOVE",
                                     Interpolate(a.start_x, a.end_x, i, steps),
                                     Interpolate(a.start_y, a.end_y, i, steps)))
                /\ IF a.duration_ms < 0
                   THEN /\ ret' = Raised("swipe", a, "ValueError", 190)
                        /\ ctl_task' = CtlIdle
                   ELSE /\ ret' = NoRet
                        /\ ctl_task' = IF i < steps
                                       THEN [ctl_task EXCEPT !.i = i + 1]
                                       ELSE [ctl_task EXCEPT !.pc = "sw_release"]
    /\ UNCHANGED <<ctl, ctl_threads>>
    /\ UNCHANGED <<MYSCRCPY_AVAILABLE, screen_buffer>>

\* _swipe(), line 192: the release at the end point; swipe() returns
CtlSwipeRelease ==
    /\ ctl_task.pc = "sw_release"
    /\ IF ctl.session = None
       THEN /\ ret' = Raised("swipe", ctl_task.arg, "AttributeError", 192)
            /\ sent' = sent
       ELSE /\ sent' = Append(sent, Touch("RELEASE", ctl_task.arg.end_x,
                                          ctl_task.arg.end_y))
            /\ ret' = Returned("swipe", ctl_task.arg, None, "", 194)
    /\ ctl_task' = CtlIdle
    /\ UNCHANGED <<ctl, ctl_threads>>
    /\ UNCHANGED <<MYSCRCPY_AVAILABLE, screen_buffer>>

\* press_key accepting an unknown name without doing anything
CtlPressKeyCall_SilentNoOp(key) ==
    /\ ctl_task.pc = "idle"
    /\ IF ~ctl.connected
       THEN /\ ret' = Raised("press_key", key, "RuntimeError", 211)
            /\ sent' = <<>>
            /\ ctl_task' = ctl_task
       ELSE IF key_map_get(upper(key)) = None
       THEN /\ ret' = Returned("press_key", key, None, "", 228)
            /\ sent' = <<>>
            /\ ctl_task' = ctl_task
       ELSE /\ ctl_task' = [CtlJob("press", "press_key", key)
                               EXCEPT !.code = Val(key_map_get(upper(key)))]
            /\ sent' = <<>>
            /\ ret' = NoRet
    /\ UNCHANGED <<ctl, ctl_threads>>
    /\ UNCHANGED <<MYSCRCPY_AVAILABLE, screen_buffer>>

\* press_key(key) up to run_in_executor, lines 210-231
CtlPressKeyCall(key) ==
    /\ ctl_task.pc = "idle"
    /\ IF ~ctl.connected
       THEN /\ ret' = Raised("press_key", key, "RuntimeError", 211)
            /\ sent' = <<>>
            /\ ctl_task' = ctl_task
       ELSE IF key_map_get(upper(key)) = None
       THEN /\ ret' = Raised("press_key", key, "ValueError", 228)
            /\ sent' = <<>>
            /\ ctl_task' = ctl_task
       ELSE /\ ctl_task' = [CtlJob("press", "press_key", key)
                               EXCEPT !.code = Val(key_map_get(upper(key)))]
            /\ sent' = <<>>
            /\ ret' = NoRet
    /\ UNCHANGED <<ctl, ctl_threads>>
    /\ UNCHANGED <<MYSCRCPY_AVAILABLE, screen_buffer>>

\* _press() in the executor, lines 233-240: the adb command is issued once;
\* subprocess.run returns, or raises TimeoutExpired after its 5 seconds
CtlPressRun ==
    /\ ctl_task.pc = "press"
    /\ sent' = Append(sent, KeyEvent(ctl_task.code))
    /\ \/ ret' = Returned("press_key", ctl_task.arg, None, "", 240)
       \/ ret' = Raised("press_key", ctl_task.arg, "TimeoutExpired", 235)
    /\ ctl_task' = CtlIdle
    /\ UNCHANGED <<ctl, ctl_threads>>
    /\ UNCHANGED <<MYSCRCPY_AVAILABLE, screen_buffer>>

\* ---- specifications ----

Init ==
    /\ MYSCRCPY_AVAILABLE \in BOOLEAN
    /\ session = None
    /\ device_id = None
    /\ connected = FALSE
    /\ width = 0
    /\ height = 0
    /\ frame_buffer = <<>>
    /\ frame_thread = None
    /\ running = FALSE
    /\ recording_process = None
    /\ recording_output_path = None
    /\ recording_start_time = None
    /\ scrcpy_available = None
    /\ threads = <<>>
    /\ open_sessions = {}
    /\ nsessions = 0
    /\ captured = 0
    /\ procs = <<>>
    /\ files = {}
    /\ dirs = {}
    /\ task = [t \in Tasks |-> IdleTask]
    /\ dpc = "idle"
    /\ ret = NoRet
    /\ pushed = <<>>
    /\ probes = 0
    /\ unlocked = {}
    /\ ctl = [session |-> None, device_id |-> None, connected |-> FALSE,
              width |-> 0, height |-> 0, last_frame |-> None,
              frame_thread |-> None, running |-> FALSE]
    /\ ctl_threads = <<>>
    /\ ctl_task = CtlIdle
    /\ sent = <<>>

DeviceArgs == {None} \cup {Some(d) : d \in Devices}

\* the calls a set T of callers can issue
ConnectBy(T) == \E t \in T, did \in DeviceArgs : ConnectCall(t, did)
StartRecordingBy(T) == \E t \in T, path \in Paths : StartRecordingCall(t, path)
RouterBy(T) == \E t \in T, op \in RouterOps :
                  \E arg \in RouterArgs(op) : RouterCall(t, op, arg)
RouterDefaultDeviceBy(T) ==
    \E t \in T, op \in RouterOps :
        \E arg \in {a \in RouterArgs(op) : a.device = None /\ a.offset \in {0, 1}} :
            RouterCall(t, op, arg)
CallToolBy(T) == \E t \in T, name \in RecordingTools :
                    \E arg \in ToolArgs(name) : CallToolRecording(t, name, arg)

\* the steps of suspended coroutines, of the threads and of the processes
ConnectSteps == \E t \in Tasks :
                   ConnectOpen(t) \/ ConnectWait(t) \/ ConnectResume(t) \/ ConnectSleep(t)
Producer == \E i \in 1..Len(threads) :
               ThreadLoop(i) \/ ThreadBody(i) \/ ThreadPush(i) \/ ThreadSleep(i)
Disconnect == DisconnectBegin \/ DisconnectJoin \/ DisconnectClear
Readers == ScreenshotCall \/ GetScreenSizeCall \/ \E k \in Offsets : GetFrameAtOffsetCall(k)
RecordingSteps == \E t \in Tasks : StartRecordingResume(t)
Recorder == \E p \in 1..Len(procs) : RecorderWrites(p) \/ RecorderExits(p)
RouterSteps == \E t \in Tasks : AdbReturn(t)
CtlConnect == CtlConnectCall \/ CtlConnectOpen \/ CtlConnectResume \/ CtlConnectSleep
CtlProducer == \E i \in 1..Len(ctl_threads) : CtlThreadPoll(i)
CtlSwipe == (\E a \in SwipeArgs : CtlSwipeCall(a))
               \/ CtlSwipeDown \/ CtlSwipeMove \/ CtlSwipeRelease
CtlPressKey == (\E key \in Keys : CtlPressKeyCall(key)) \/ CtlPressRun

\* every operation, issued by any caller at any time
Next ==
    \/ ConnectBy(Tasks)
    \/ ConnectSteps
    \/ Producer
    \/ Disconnect
    \/ Readers
    \/ StartRecordingBy(Tasks)
    \/ RecordingSteps
    \/ StopRecordingCall
    \/ GetRecordingStatusCall
    \/ Recorder
    \/ RouterBy(Tasks)
    \/ RouterSteps
    \/ CallToolBy(Tasks)
    \/ CtlConnect
    \/ CtlProducer
    \/ CtlDisconnect
    \/ CtlSwipe
    \/ CtlPressKey

Spec == Init /\ [][Next]_vars

\* the ring buffer between one connect and the next disconnect: one caller
\* connects and reads while the polling thread pushes up to MaxFrames frames
NextBuffer ==
    \/ (NoCallInFlight /\ ConnectBy({1}))
    \/ ConnectSteps
    \/ Producer
    \/ (NoCallInFlight /\ Readers)

SpecBuffer == Init /\ [][NextBuffer]_vars

\* the streaming backend over connects and disconnects, driven by one caller
\* that awaits each call, while the devices deliver MaxLiveFrames frames
NextStream ==
    \/ (NoCallInFlight /\ ConnectBy({1}))
    \/ ConnectSteps
    \/ (Producer /\ captured' <= MaxLiveFrames)
    \/ (NoCallInFlight /\ Disconnect)

SpecStream == Init /\ [][NextStream]_vars

\* one step of polling thread i
ThreadStep(i) ==
    /\ i <= Len(threads)
    /\ ThreadLoop(i) \/ ThreadBody(i) \/ ThreadPush(i) \/ ThreadSleep(i)
    /\ captured' <= MaxLiveFrames

\* the same, where every polling thread keeps being scheduled and every call
\* it makes returns (get_frame, the lock, the sleeps), and where disconnect(),
\* which never awaits, runs to its end: join(timeout=1) and session.stop()
\* return
SpecStreamFair ==
    /\ Init
    /\ [][NextStream]_vars
    /\ \A i \in 1..MaxSessions : WF_vars(ThreadStep(i))
    /\ WF_vars(NoCallInFlight /\ DisconnectJoin)
    /\ WF_vars(NoCallInFlight /\ DisconnectClear)

\* the router's read operations issued one after the other
NextRouterSeq ==
    \/ (NoCallInFlight /\ RouterBy({1}))
    \/ RouterSteps
    \/ ConnectSteps
    \/ Producer
    \/ (NoCallInFlight /\ Disconnect)

SpecRouterSeq == Init /\ [][NextRouterSeq]_vars

\* the recording session driven by one caller that awaits each call, with one
\* device attached and at most one streaming session opened; the polling
\* threads touch none of the recording state and are left out
NextRecording ==
    \/ (NoCallInFlight /\ ConnectBy({1}) /\ device_id' \in {None, Some("d1")})
    \/ (ConnectSteps /\ nsessions' <= 1)
    \/ (NoCallInFlight /\ Disconnect)
    \/ (NoCallInFlight /\ StartRecordingBy({1}) /\ Len(procs') <= MaxSeqProcs)
    \/ RecordingSteps
    \/ (NoCallInFlight /\ StopRecordingCall)
    \/ (NoCallInFlight /\ GetRecordingStatusCall)
    \/ Recorder

SpecRecording == Init /\ [][NextRecording]_vars

\* the recording session used by concurrent callers on a backend that has a
\* device: start_recording suspends at its sleep, and stop_recording,
\* disconnect and other start_recording calls run in between
NextRecordingPar ==
    \/ (NoCallInFlight /\ procs = <<>> /\ ConnectBy({1})
            /\ device_id' \in {None, Some("d1")})
    \/ (ConnectSteps /\ nsessions' <= 1)
    \/ StartRecordingBy(Tasks)
    \/ RecordingSteps
    \/ StopRecordingCall
    \/ Disconnect
    \/ Recorder

SpecRecordingPar == Init /\ [][NextRecordingPar]_vars

\* the server's tools issued one after the other: the router's reads and the
\* recording tools, over a backend that is also disconnected now and then
NextTools ==
    \/ (NoCallInFlight /\ RouterBy({1}))
    \/ RouterSteps
    \/ ConnectSteps
    \/ Producer
    \/ (NoCallInFlight /\ Disconnect)
    \/ (NoCallInFlight /\ CallToolBy({1}))

SpecTools == Init /\ [][NextTools]_vars

\* the router's read operations issued concurrently while the probe has not
\* completed: every caller may enter before the first connect() returns
NextRouterPar ==
    \/ (scrcpy_available = None /\ RouterDefaultDeviceBy(Tasks))
    \/ RouterSteps
    \/ ConnectSteps
    \/ (Producer /\ captured' <= MaxLiveFrames)

SpecRouterPar == Init /\ [][NextRouterPar]_vars

\* the control-capable backend: connect, disconnect, swipe and press_key, one
\* input operation at a time, with at most MaxSessions sessions opened
NextControl ==
    \/ (CtlConnect /\ Len(ctl_threads') <= MaxSessions)
    \/ CtlProducer
    \/ CtlDisconnect
    \/ CtlSwipe
    \/ CtlPressKey

SpecControl == Init /\ [][NextControl]_vars

\* ---- properties ----

\* the frames a buffer holds, oldest first
Frames(buf) == [i \in 1..Len(buf) |-> buf[i].frame]

\* the last n elements of s
LastN(s, n) == SubSeq(s, Len(s) - n + 1, Len(s))

\* a read of the buffer through get_frame_at_offset has just returned or
\* raised on a connected backend whose buffer is not empty
OffsetReadDone ==
    /\ ret.op = "get_frame_at_offset"
    /\ connected
    /\ session # None
    /\ frame_buffer # <<>>

\* C1: over any sequence of producer pushes since the buffer was last cleared,
\* the buffer never holds more than FRAME_BUFFER_SIZE frames and holds exactly
\* the last min(p, FRAME_BUFFER_SIZE) of the p pushed frames, in push order; so
\* once FRAME_BUFFER_SIZE + 1 frames were pushed the first one is gone.
C1_BufferHoldsNewest ==
    LET p == Len(pushed)
        n == Min(p, FRAME_BUFFER_SIZE)
    IN  /\ Len(frame_buffer) <= FRAME_BUFFER_SIZE
        /\ Frames(frame_buffer) = LastN(pushed, n)
        /\ p > FRAME_BUFFER_SIZE =>
              \A i \in 1..Len(frame_buffer) : frame_buffer[i].frame # pushed[1]

C1_Witness ==
    /\ Len(pushed) = FRAME_BUFFER_SIZE + 1
    /\ Len(frame_buffer) = FRAME_BUFFER_SIZE

\* C2: on a connected backend with count > 0 buffered frames,
\* get_frame_at_offset(k) with 0 <= k <= count-1 returns the frame k positions
\* behind the latest (for k = 0 the frame screenshot() returns), and with
\* k >= count-1 it returns the oldest buffered frame; the only exception it can
\* raise comes from the PNG encoder, never from the buffer access.
C2_OffsetReadsWithinBuffer ==
    (OffsetReadDone /\ ret.arg >= 0) =>
        LET count == Len(frame_buffer)
            k == ret.arg
        IN  /\ ret.ok \/ ret.val = "EncodingFailed"
            /\ ret.ok =>
                /\ k <= count - 1 => ret.val.png = frame_buffer[count - k].frame
                /\ k >= count - 1 => ret.val.png = frame_buffer[1].frame
                /\ k = 0 => ret.val = screenshot(FALSE).val

C2_Witness ==
    /\ OffsetReadDone
    /\ ret.ok
    /\ Len(frame_buffer) >= 2
    /\ ret.arg > Len(frame_buffer) - 1
    /\ ret.val.png = frame_buffer[1].frame

\* C3: for every integer offset k, negative ones included,
\* get_frame_at_offset(k) on a connected backend with count > 0 buffered frames
\* returns the frame at position max(0, min(k, count-1)) behind the latest and
\* raises nothing from the buffer access; a negative k returns the latest frame.
C3_OffsetClampedBothWays ==
    OffsetReadDone =>
        LET count == Len(frame_buffer)
            k == IF ret.arg < 0 THEN 0 ELSE Min(ret.arg, count - 1)
        IN  /\ ret.ok \/ ret.val = "EncodingFailed"
            /\ ret.ok => ret.val.png = frame_buffer[count - k].frame

\* C4: Router.screenshot() never propagates an exception of the streaming
\* screenshot: with the probe memoized as available, a result tagged "scrcpy"
\* is returned only when the streaming screenshot succeeded (and is that
\* frame); otherwise the call goes on to the polling backend and returns its
\* capture tagged "adb", or the polling backend's own error.
C4_ScreenshotFallsBack ==
    ret.op = "Router.screenshot" =>
        /\ ~ret.ok => ret.val = "adb failed"
        /\ ret.ok =>
            /\ ret.tag \in {"scrcpy", "adb"}
            /\ ret.tag = "scrcpy" =>
                /\ scrcpy_available = Some(TRUE)
                /\ screenshot(FALSE).ok
                /\ ret.val = screenshot(FALSE).val
            /\ ret.tag = "adb" => ret.val = [adb |-> ret.arg.device]

C4_Witness ==
    /\ ret.op = "Router.screenshot"
    /\ ret.ok
    /\ ret.tag = "adb"
    /\ scrcpy_available = Some(TRUE)

\* C5: for every offset > 0, Router.get_frame_at_offset(offset) never returns
\* a frame of the polling backend: whatever it returns is tagged "scrcpy".
C5_HistoricalNeverFromPolling ==
    (ret.op = "Router.get_frame_at_offset" /\ ret.ok /\ ret.arg.offset > 0) =>
        ret.tag = "scrcpy"

\* C6: over router read operations issued one after the other, connect() is
\* attempted by the router at most once, and once the probe result has left
\* None no step changes it or attempts connect() again.
C6_ProbedOnce ==
    [][/\ probes' <= 1
       /\ scrcpy_available # None =>
            /\ scrcpy_available' = scrcpy_available
            /\ probes' = probes]_vars

C6_Witness ==
    /\ scrcpy_available = Some(TRUE)
    /\ probes = 1
    /\ ~connected
    /\ ret.op = "Router.screenshot"
    /\ ret.tag = "adb"

\* the recorder process referenced by the recording session is running
RecorderAlive ==
    recording_process # None /\ procs[Val(recording_process)].alive

\* C7: start_recording called while a recording is active returns False and
\* changes nothing: process handle, output path and start time stay as they
\* were, no process is spawned or signalled, no file or directory is created.
C7_StartWhileActiveRejected ==
    [][\A t \in Tasks, path \in Paths :
        (RecorderAlive /\ StartRecordingCall(t, path)) =>
            /\ ret'.op = "start_recording"
            /\ ret'.ok
            /\ ret'.val = FALSE
            /\ UNCHANGED <<recording, procs, files, dirs>>]_vars

C7_Witness ==
    /\ ret.op = "start_recording"
    /\ ret.line = 234
    /\ ret.ok
    /\ ret.val = FALSE
    /\ RecorderAlive

\* C8: stop_recording called while no recording is active returns the
\* "No recording in progress" failure, sends no signal to any process and
\* leaves the recording state, the processes and the files unchanged.
C8_StopWhileIdleRejected ==
    [][(~RecorderAlive /\ StopRecordingCall) =>
            /\ ret'.op = "stop_recording"
            /\ ~ret'.val.success
            /\ ret'.val.error = "No recording in progress"
            /\ UNCHANGED <<recording, procs, files, dirs>>]_vars

C8_Witness ==
    /\ ret.op = "stop_recording"
    /\ ret.line = 293
    /\ recording_process = None
    /\ ~ret.val.success

\* C9: when device discovery returns no devices, or the requested device id is
\* not among them, connect() returns False and changes nothing: the backend is
\* not connected, no session is constructed and no polling thread is started.
C9_NoDeviceNoChange ==
    [][(ret'.op = "connect" /\ ret'.line \in {103, 114}) =>
            /\ ret'.val = FALSE
            /\ ~(connected' /\ session' # None)
            /\ UNCHANGED <<backend, threads, open_sessions, nsessions>>]_vars

C9_Witness ==
    /\ ret.op = "connect"
    /\ ret.line \in {103, 114}
    /\ ret.val = FALSE
    /\ ~connected

\* C10: when connect() fails after choosing a device (the session does not
\* report live video, or opening it raises), the connected flag is false and
\* the session reference and device identifier are what they were when the
\* call was entered.
C10_FailedConnectKeepsNothing ==
    [][\A t \in Tasks :
        (task[t].pc = "c_resume" /\ task'[t].pc = "idle") =>
            /\ ~connected'
            /\ session' = Val(task[t].before).session
            /\ device_id' = Val(task[t].before).device_id]_vars

\* C11: disconnect() raises nothing from any state, and when it returns the
\* backend is not connected, the frame buffer is empty and width and height
\* are zero (so a second call finds nothing left to change).
C11_DisconnectLeavesNothing ==
    [][ret'.op = "disconnect" =>
            /\ ret'.ok
            /\ ~connected'
            /\ frame_buffer' = <<>>
            /\ width' = 0
            /\ height' = 0]_vars

\* C12: at every state, every recorder process that is alive is the one the
\* recording session's process handle refers to; so at most one is alive.
C12_OnlyHeldRecorderAlive ==
    \A p \in 1..Len(procs) : procs[p].alive => recording_process = Some(p)

\* C13: whenever stop_recording is called while a recording is active, for
\* every outcome (file present, file missing, exception while terminating or
\* waiting) the process handle, output path and start time are cleared when
\* it returns, and is_recording is false.
C13_StopAlwaysResets ==
    [][(RecorderAlive /\ StopRecordingCall) =>
            /\ ret'.op = "stop_recording"
            /\ recording_process' = None
            /\ recording_output_path' = None
            /\ recording_start_time' = None
            /\ ~RecorderAlive']_vars

C13_Witness ==
    /\ ret.op = "stop_recording"
    /\ ret.line = 333
    /\ recording_process = None
    /\ \E p \in 1..Len(procs) : procs[p].alive

\* C14: when stop_recording is called while a recording is active and the
\* recorder process has exited, it reports success, with the output path, if
\* and only if the output file exists; if the file is absent it reports a
\* failure with an error, however the process came to exit.
C14_SuccessIffFileExists ==
    [][(RecorderAlive /\ StopRecordingCall
          /\ ~procs'[Val(recording_process)].alive) =>
            /\ ret'.op = "stop_recording"
            /\ ret'.val.success <=> Val(recording_output_path) \in files'
            /\ ret'.val.success => ret'.val.output_path = recording_output_path
            /\ ~ret'.val.success => ret'.val.error # ""]_vars

C14_Witness ==
    /\ ret.op = "stop_recording"
    /\ ret.line = 326
    /\ ~ret.val.success
    /\ \E p \in 1..Len(procs) :
          /\ ~procs[p].alive
          /\ procs[p].sig = "term"
          /\ procs[p].path \notin files

\* C15: start_recording called while the backend has no streaming connection
\* (fresh, after a failed connect(), after disconnect()) returns False and
\* spawns no recorder process.
C15_StartNeedsConnection ==
    [][\A t \in Tasks, path \in Paths :
        (~connected /\ StartRecordingCall(t, path)) =>
            /\ ret'.op = "start_recording"
            /\ ret'.ok
            /\ ret'.val = FALSE
            /\ procs' = procs]_vars

\* C16: every start_recording (with an output path), stop_recording and
\* recording_status tool call reaches the streaming backend's recording session
\* and the caller receives that session's result, never the generic
\* "Error: ..." text of call_tool's exception handler.
C16_RecordingToolsDelegated ==
    [][\A t \in Tasks, name \in RecordingTools :
        \A arg \in ToolArgs(name) :
            (CallToolRecording(t, name, arg)
               /\ (name = "device_start_recording" => Truthy(arg))) =>
                \/ task'[t].pc = "s_sleep"
                \/ ret'.op \in {"start_recording", "stop_recording",
                                "get_recording_status"}]_vars

\* two key names are equal up to the case of their ASCII letters
CaseInsensitiveEq(a, b) ==
    /\ Len(a) = Len(b)
    /\ \A i \in 1..Len(a) :
          \/ a[i] = b[i]
          \/ \E j \in 1..Len(LowerCase) :
                {a[i], b[i]} = {LowerCase[j], UpperCase[j]}

\* the key name is in the fixed table, compared case-insensitively
KnownKey(key) == \E e \in key_map : CaseInsensitiveEq(key, e[1])

\* C17: on a connected backend, press_key with a name outside the fixed table
\* (compared case-insensitively) fails with the unknown-key error and sends no
\* key event; with a name inside the table it sends exactly one key event,
\* carrying the keycode the table maps that name to.
C17_UnknownKeyRejected ==
    [][/\ (ctl.connected /\ ctl_task.pc = "idle" /\ ctl_task'.pc = "press") =>
            /\ KnownKey(ctl_task'.arg)
            /\ sent' = <<>>
       /\ (ctl.connected /\ ctl_task.pc = "idle" /\ ret'.op = "press_key") =>
            /\ ~KnownKey(ret'.arg)
            /\ ~ret'.ok
            /\ ret'.val = "ValueError"
            /\ ctl_task'.pc = "idle"
            /\ sent' = <<>>
       /\ (ctl_task.pc = "press" /\ ret'.op = "press_key") =>
            /\ KnownKey(ctl_task.arg)
            /\ sent' = <<KeyEvent((CHOOSE e \in key_map :
                            CaseInsensitiveEq(ctl_task.arg, e[1]))[2])>>
            /\ ctl_task'.pc = "idle"]_vars

C17_Witness ==
    /\ ret.op = "press_key"
    /\ ret.line = 228
    /\ ~ret.ok
    /\ ret.val = "ValueError"
    /\ ctl.connected
    /\ sent = <<>>

\* C18: when a swipe admitted on a connected control-capable backend ends and
\* the backend is still connected, the touch events it sent are, in order: one
\* DOWN at the start point, exactly max(10, duration_ms div 30) MOVE events,
\* one RELEASE at the end point, and nothing else.
C18_SwipeEventOrder ==
    (/\ ret.op = "swipe"
     /\ ret.line \notin {171, 174}
     /\ ctl.connected
     /\ ctl.session # None) =>
        LET a == ret.arg
            steps == Max(10, a.duration_ms \div 30)
        IN  /\ Len(sent) = steps + 2
            /\ sent[1].action = "DOWN"
            /\ sent[1].x = a.start_x
            /\ sent[1].y = a.start_y
            /\ \A i \in 2..(steps + 1) : sent[i].action = "MOVE"
            /\ sent[steps + 2].action = "RELEASE"
            /\ sent[steps + 2].x = a.end_x
            /\ sent[steps + 2].y = a.end_y

\* C19: under any interleaving of concurrent router read operations issued
\* before the first probe completes, connect() is attempted at most once, at
\* most one streaming session is opened and at most one polling thread is
\* started.
C19_OneProbeUnderConcurrency ==
    /\ probes <= 1
    /\ nsessions <= 1
    /\ Len(threads) <= 1

\* C20: at every state, over any sequence of connect and disconnect calls, at
\* most one polling thread holds a frame it is about to append to the ring
\* buffer.
C20_OneProducer ==
    Cardinality({i \in 1..Len(threads) : threads[i].pc = "push"}) <= 1

\* C21: once disconnect() has returned and until the backend is connected
\* again, the frame buffer is empty and width and height are zero, whatever a
\* polling thread that was in flight during disconnect() does afterwards.
C21_EmptyAfterDisconnect ==
    (~connected /\ dpc = "idle") =>
        /\ frame_buffer = <<>>
        /\ width = 0
        /\ height = 0

\* C24: while the backend is connected and no disconnect is under way, the
\* polling thread started by connect() has not left its loop; an exception of
\* the session's frame call leaves the buffer and the dimensions unchanged and
\* sends the thread to its back-off sleep, from which it returns to the loop;
\* a thread leaves the loop only when the running flag is down or the session
\* is gone.
C24_ProducerSurvivesErrors ==
    /\ []((connected /\ dpc = "idle") =>
            /\ frame_thread # None
            /\ threads[Val(frame_thread)].pc # "done")
    /\ [][\A i \in 1..Len(threads) :
            /\ (threads[i].pc = "body" /\ threads'[i].pc = "backoff") =>
                    UNCHANGED <<frame_buffer, width, height>>
            /\ threads[i].pc = "backoff" => threads'[i].pc \in {"backoff", "loop"}
            /\ (threads[i].pc # "done" /\ threads'[i].pc = "done") =>
                    ~(running /\ session # None)]_vars

C24_Witness ==
    /\ connected
    /\ dpc = "idle"
    /\ session # None
    /\ frame_thread # None
    /\ threads[Val(frame_thread)].pc = "backoff"
    /\ Val(session).va

\* C28: when a recording was started successfully and neither stop_recording
\* nor disconnect has run since, stop_recording never answers "No recording in
\* progress", also when the recorder process has exited on its own.
C28_StopReportsOnStartedRecording ==
    [][(recording_process # None /\ NoCallInFlight /\ StopRecordingCall) =>
            /\ ret'.op = "stop_recording"
            /\ ret'.val.error # "No recording in progress"]_vars

\* C29: a router read operation called with an explicit device id d returns a
\* frame of the streaming backend only if that frame comes from device d.
C29_ExplicitDeviceHonoured ==
    (/\ ret.op \in {"Router.screenshot", "Router.get_frame_at_offset"}
     /\ ret.ok
     /\ ret.tag = "scrcpy"
     /\ ret.arg.device # None) =>
        ret.val.png.dev = Val(ret.arg.device)


\* C27: when start_recording fails because the recorder cannot be spawned
\* (lines 279-284) or because the spawned process has exited by the time it is
\* checked after the grace period (line 274), it returns False and the session
\* is idle afterwards: is_recording is false and the process handle, the
\* output path and the start time are unset
C27_FailedStartLeavesIdle ==
    [][(/\ ret'.op = "start_recording"
        /\ ret'.ok
        /\ ret'.line \in {274, 281, 284}) =>
            /\ ret'.val = FALSE
            /\ ~is_recording'
            /\ recording_process' = None
            /\ recording_output_path' = None
            /\ recording_start_time' = None]_vars


\* C26: stop_recording on an active recording calls, on the recorder process,
\* terminate() and a bounded wait, and only when that wait timed out kill()
\* followed by a second wait, in this order; whenever it returns a result
\* computed from the output file (lines 318 and 326) the process has exited
C26_StopOrderAndExit ==
    [][(/\ ret'.op = "stop_recording"
        /\ ret'.line \in {318, 326}) =>
            /\ recording_process # None
            /\ LET p == Val(recording_process) IN
                   /\ procs[p].alive
                   /\ ~procs'[p].alive
                   /\ \/ procs'[p].ops = procs[p].ops \o <<"terminate", "wait">>
                      \/ procs'[p].ops = procs[p].ops
                            \o <<"terminate", "wait_timeout", "kill", "wait">>]_vars

\* stop_recording has force-killed a recorder that ignored terminate() and
\* reports its file
C26_Witness ==
    /\ ret.op = "stop_recording"
    /\ ret.line = 318
    /\ \E p \in 1..Len(procs) :
          /\ procs[p].sig = "kill"
          /\ procs[p].ops = <<"terminate", "wait_timeout", "kill", "wait">>


\* C23: under any interleaving of start_recording, stop_recording and
\* disconnect at start_recording's sleep, start_recording(p) returns True only
\* if, when it returns, the process it spawned is alive and is the process
\* the backend holds, with output path p
C23_StartSuccessIsOwnRecording ==
    [][\A t \in Tasks :
          (/\ task[t].pc = "s_sleep"
           /\ task'[t].pc = "idle"
           /\ ret'.op = "start_recording"
           /\ ret'.line = 277) =>
              LET own == Val(task[t].before).proc IN
                 /\ procs'[own].alive
                 /\ recording_process' = Some(own)
                 /\ recording_output_path' = Some(task[t].arg)]_vars


\* C25: after disconnect() has cleared the running flag, every polling thread
\* that is still in its loop eventually terminates, given that the thread
\* keeps running and its calls return; and disconnect() itself always
\* returns, also when the thread outlived the join timeout
C25_ProducerEventuallyStops ==
    /\ \A i \in 1..MaxSessions :
          (dpc = "join" /\ i <= Len(threads) /\ threads[i].pc # "done")
              ~> (i <= Len(threads) /\ threads[i].pc = "done")
    /\ (dpc = "join") ~> (dpc = "idle")


\* C22: every mutation and every read of the frame buffer's contents (the
\* push of the polling thread, screenshot, get_frame_at_offset and the clear
\* in disconnect) is made while self._lock is held
C22_BufferAccessUnderLock ==
    unlocked = {}

====
